---------------------------- MODULE Spec2Model ----------------------------
(***************************************************************************)
(* nexp: export of a Notion page to markdown.                              *)
(*                                                                         *)
(* The exporter keeps one byte buffer (exporter.page).  Render resets it,  *)
(* fetches the page, appends the page header, walks the block tree with    *)
(* renderBlocks (one recursive call per container) and appends the footer. *)
(*                                                                         *)
(* Byte strings are sequences of atoms (TLA+ strings); appending the empty *)
(* string appends the empty sequence.  The content source (the Notion API) *)
(* is the environment: every fetch draws its answer from a bounded set.    *)
(***************************************************************************)
EXTENDS Integers, Sequences, FiniteSets, TLC

\* ------------------------------------------------------------------ bounds

\* blocks the content source delivers to one Render call
MaxBlocks == 3
\* blocks in one answer of the children fetch
MaxChildren == 3
\* nesting depth of containers below the page
MaxDepth == 2
\* blocks delivered for a page of tables alone: two tables and their rows
MaxTableBlocks == 5

\* ------------------------------------------------------- program constants

\* spaces of padding per depth level (the literal 4 of AddPadding)
PadWidth == 4

NL == "\n"
\* three backticks; the atom is spelled out, a string literal cannot hold a backtick
mdCodeBlockDelimiter == "<fence>"
mdHeadingOnePattern == "# "
mdHeadingTwoPattern == "## "
mdHeadingThreePattern == "### "
mdListItemPattern == "* "
mdNumItemPattern == "1. "
mdTodoUncheckedPattern == "* [] "
mdTodoCheckedPattern == "* [x] "
mdDividerPattern == "---"
mdQuotePattern == "> "

\* the variant tags renderBlocks dispatches on, and one it does not know
KnownTypes ==
    { "heading_1", "heading_2", "heading_3", "paragraph",
      "bulleted_list_item", "numbered_list_item", "to_do", "divider",
      "code", "table", "table_row", "quote", "callout", "image" }

BlockTypes == KnownTypes \cup { "toggle" }

\* the previous-variant tag also takes the empty string (zero value)
TagValues == BlockTypes \cup { "" }

\* ------------------------------------------------------------ byte strings

RECURSIVE Repeat(_, _)
Repeat(s, n) == IF n <= 0 THEN << >> ELSE s \o Repeat(s, n - 1)

RECURSIVE Cat(_)
\* concatenation of a sequence of byte strings
Cat(ss) == IF ss = << >> THEN << >> ELSE Head(ss) \o Cat(Tail(ss))

RECURSIVE ReplaceAll(_, _, _)
\* strings.ReplaceAll on atoms: every atom old becomes the string new
ReplaceAll(s, old, new) ==
    IF s = << >> THEN << >>
    ELSE (IF Head(s) = old THEN new ELSE << Head(s) >>)
         \o ReplaceAll(Tail(s), old, new)


\* ------------------------------------------------------------ the renderer

\* the slots of OverrideOptions, and the two page slots Render reads
BlockSlots ==
    { "Header1", "Header2", "Header3", "Paragraph", "BulletedList",
      "NumberedList", "Divider", "Code", "Todo", "Quote", "Callout",
      "Image", "Padding", "Row" }

PageSlots == { "PageHeader", "PageFooter" }

\* what a configured override function returns: text of the caller's own
OvText(slot) == << "@" \o slot >>

RECURSIVE Sprintf(_)
\* fmt.Sprintf(format) with no operands, on atoms ("%" is one atom, the atom
\* after it is the verb): "%%" prints "%", "%" and a verb print
\* "%!verb(MISSING)", "%" at the end prints "%!(NOVERB)"
Sprintf(format) ==
    IF format = << >> THEN << >>
    ELSE IF Head(format) # "%"
    THEN << Head(format) >> \o Sprintf(Tail(format))
    ELSE IF Len(format) = 1 THEN << "%!(NOVERB)" >>
    ELSE IF format[2] = "%" THEN << "%" >> \o Sprintf(Tail(Tail(format)))
    ELSE << "%!", format[2], "(MISSING)" >> \o Sprintf(Tail(Tail(format)))

\* one run of rich text without link or annotations; content is the atoms
\* of Text.Content
PlainRun(content) ==
    [ content |-> content, href |-> "", bold |-> FALSE, italic |-> FALSE,
      strike |-> FALSE, code |-> FALSE ]

\* one turn of the loop of RenderText; the plain case passes the content to
\* Sprintf as the format
RenderRun(t) ==
    IF t.href # "" THEN << "[" >> \o t.content \o << "](", t.href, ")" >>
    ELSE IF t.bold THEN << "**" >> \o t.content \o << "**" >>
    ELSE IF t.italic THEN << "_" >> \o t.content \o << "_" >>
    ELSE IF t.strike THEN << "~" >> \o t.content \o << "~" >>
    ELSE IF t.code THEN << "<tick>" >> \o t.content \o << "<tick>" >>
    ELSE Sprintf(t.content)

RECURSIVE RenderText(_)
RenderText(rt) ==
    IF rt = << >> THEN << >> ELSE RenderRun(Head(rt)) \o RenderText(Tail(rt))

RenderPageHeader1(txt, ov) ==
    IF "Header1" \in ov THEN OvText("Header1")
    ELSE << mdHeadingOnePattern >> \o txt

RenderPageHeader2(txt, ov) ==
    IF "Header2" \in ov THEN OvText("Header2")
    ELSE << mdHeadingTwoPattern >> \o txt

RenderPageHeader3(txt, ov) ==
    IF "Header3" \in ov THEN OvText("Header3")
    ELSE << mdHeadingThreePattern >> \o txt

RenderParagraph(txt, ov) ==
    IF "Paragraph" \in ov THEN OvText("Paragraph") ELSE txt

RenderDivider(ov) ==
    IF "Divider" \in ov THEN OvText("Divider") ELSE << mdDividerPattern >>

RenderNumberedList(txt, ov) ==
    IF "NumberedList" \in ov THEN OvText("NumberedList")
    ELSE << mdNumItemPattern >> \o txt

RenderBulletedList(txt, ov) ==
    IF "BulletedList" \in ov THEN OvText("BulletedList")
    ELSE << mdListItemPattern >> \o txt

RenderTodoList(txt, checked, ov) ==
    IF "Todo" \in ov THEN OvText("Todo")
    ELSE IF checked THEN << mdTodoCheckedPattern >> \o txt
    ELSE << mdTodoUncheckedPattern >> \o txt

RenderCallout(txt, ov) ==
    IF "Callout" \in ov THEN OvText("Callout")
    ELSE << mdQuotePattern >> \o txt

RenderQuote(txt, ov) ==
    IF "Quote" \in ov THEN OvText("Quote")
    ELSE << mdQuotePattern >> \o txt

ResolveLanguageForCodeBlock(language) ==
    CASE language = "c++" -> "cpp"
      [] language = "c#" -> "csharp"
      [] language = "f#" -> "fsharp"
      [] language = "plain text" -> "txt"
      [] OTHER -> language

RenderCode(txt, language, ov) ==
    IF "Code" \in ov THEN OvText("Code")
    ELSE << mdCodeBlockDelimiter, ResolveLanguageForCodeBlock(language), NL >>
         \o txt \o << NL, mdCodeBlockDelimiter >>

RECURSIVE RowCells(_)
\* "| %s " per cell
RowCells(cells) ==
    IF cells = << >> THEN << >>
    ELSE << "| " >> \o Head(cells).rowTxt \o << " " >> \o RowCells(Tail(cells))

\* the row index the renderer reads: that of the last cell's table state
RowIndex(cells) ==
    IF cells = << >> THEN 0 ELSE cells[Len(cells)].currentRow

RenderTableRow(cells, ov) ==
    IF "Row" \in ov THEN OvText("Row")
    ELSE RowCells(cells) \o << "|" >>
         \o (IF RowIndex(cells) = 0
             THEN << NL >> \o Repeat(<< "| --- " >>, Len(cells)) \o << "|" >>
             ELSE << >>)

defaultImageSaveLocation == "images"
notionImageExtension == ".png"

\* ImageSaveOptions' zero value
NoImageOpts ==
    [ SavePath |-> "", IgnoreImages |-> FALSE, OverwriteExisting |-> FALSE ]

\* a bug: an existing file is always fetched again
ResolveImageSaveOptionsOverwrite(opts) ==
    [ SavePath |-> IF Len(opts) >= 1 /\ opts[1].SavePath # ""
                   THEN opts[1].SavePath ELSE defaultImageSaveLocation,
      IgnoreImages |-> FALSE, OverwriteExisting |-> TRUE ]

\* opts is the variadic argument, a sequence; only SavePath and IgnoreImages
\* are taken from the first option
ResolveImageSaveOptions(opts) ==
    IF Len(opts) < 1
    THEN [ NoImageOpts EXCEPT !.SavePath = defaultImageSaveLocation ]
    ELSE [ SavePath |-> IF opts[1].SavePath # "" THEN opts[1].SavePath
                        ELSE defaultImageSaveLocation,
           IgnoreImages |-> opts[1].IgnoreImages,
           OverwriteExisting |-> FALSE ]

\* the directories after createPathIfNonExistent; the error of MkdirAll is
\* returned to a caller that drops it
createPathIfNonExistent(path, dirs, mkdirOk) ==
    IF path \notin dirs /\ mkdirOk THEN dirs \cup { path } ELSE dirs

\* filepath.Join of a directory and a file name
Join(dir, name) == dir \o "/" \o name

\* the file system with the file written
Written(files, path, content) ==
    [ q \in DOMAIN files \cup { path } |->
        IF q = path THEN content ELSE files[q] ]

\* what a call returns beside the world it leaves
Returned(path, err, w) ==
    [ path |-> path, err |-> err, panic |-> FALSE, world |-> w ]

\* SaveNotionImageToFilesystem.  address: whether url.Parse accepts it and
\* the pieces of its path split at "/".  w: the directories, the files with
\* their content and the number of HTTP GETs made so far.  env: what the
\* file system and the network answer in this call.
SaveNotionImageToFilesystem(address, opts, w, env) ==
    LET config == ResolveImageSaveOptions(opts)
        w1 == [ w EXCEPT !.dirs =
                  createPathIfNonExistent(config.SavePath, @, env.mkdirOk) ]
    IN  IF ~address.ok THEN Returned("", TRUE, w1)
        ELSE IF Len(address.resources) < 2 THEN Returned("", TRUE, w1)
        ELSE IF Len(address.resources) < 3
        THEN \* resources[2]: index out of range
             [ path |-> "", err |-> FALSE, panic |-> TRUE, world |-> w1 ]
        ELSE LET fileName == address.resources[3]
                 filePath == Join(config.SavePath, fileName)
                                 \o notionImageExtension
                 w2 == [ w1 EXCEPT !.gets = @ + 1 ]
             IN  IF ~config.OverwriteExisting
                    /\ (filePath \in DOMAIN w1.files \/ ~env.statOk)
                 THEN Returned(filePath, FALSE, w1)
                 ELSE IF env.get # "200" THEN Returned("", TRUE, w2)
                 ELSE IF config.SavePath \notin w2.dirs \/ ~env.createOk
                 THEN Returned("", TRUE, w2)
                 ELSE IF ~env.copyOk
                 THEN Returned("", TRUE,
                        [ w2 EXCEPT !.files = Written(@, filePath, "") ])
                 ELSE Returned(filePath, FALSE,
                        [ w2 EXCEPT !.files = Written(@, filePath, env.body) ])

\* the URL of an image block: of the external reference, of the hosted file
ExternalURL(b) == "http://ext/i" \o ToString(b.id)
FileURL(b) ==
    [ ok |-> TRUE,
      resources |-> << "", "secure.notion-static.com", "f" \o ToString(b.id),
                       "image.png" >> ]

\* a bug: an external image is saved like a hosted one
RenderImageSaveAll(b, ov, opts, w, env) ==
    LET save == SaveNotionImageToFilesystem(FileURL(b), << opts >>, w, env)
    IN  [ text |-> << "![", "image", "](", ExternalURL(b), ")" >>,
          err |-> FALSE, panic |-> FALSE, world |-> save.world ]

\* RenderImage: the text, the error, the world it leaves.  opts is
\* config.ImageOpts of the block's options.
RenderImage(b, ov, opts, w, env) ==
    IF "Image" \in ov
    THEN [ text |-> OvText("Image"), err |-> FALSE, panic |-> FALSE,
           world |-> w ]
    ELSE IF b.type # "image"
    THEN [ text |-> << >>, err |-> TRUE, panic |-> FALSE, world |-> w ]
    ELSE IF b.img = "external"
    THEN [ text |-> << "![", "image", "](", ExternalURL(b), ")" >>,
           err |-> FALSE, panic |-> FALSE, world |-> w ]
    ELSE IF b.img = "file"
    THEN LET save == SaveNotionImageToFilesystem(FileURL(b), << opts >>, w, env)
         IN  [ text |-> IF save.err \/ save.panic THEN << >>
                        ELSE << "![", "image", "](", save.path, ")" >>,
               err |-> save.err, panic |-> save.panic, world |-> save.world ]
    ELSE [ text |-> << "![", "image", "](", ")" >>, err |-> FALSE,
           panic |-> FALSE, world |-> w ]

\* a bug: only the first line is padded
AddPaddingFirstLine(txt, depth) ==
    Repeat(<< " " >>, depth * PadWidth) \o txt

AddPadding(txt, depth) ==
    IF depth = 0 THEN txt
    ELSE LET padding == Repeat(<< " " >>, depth * PadWidth)
         IN  ReplaceAll(padding \o txt, NL, << NL >> \o padding)

\* a bug: the case of two todo items in a row is missing
AddSectionSeperationNoTodo(previousType, currentType) ==
    IF previousType = currentType
       /\ currentType \in { "table_row", "numbered_list_item",
                            "bulleted_list_item" } THEN << NL >>
    ELSE IF currentType \in KnownTypes \ { "table" } THEN << NL, NL >>
    ELSE << >>

AddSectionSeperation(previousType, currentType) ==
    IF previousType = "table_row" /\ currentType = "table_row" THEN << NL >>
    ELSE IF previousType = "to_do" /\ currentType = "to_do" THEN << NL >>
    ELSE IF previousType = "numbered_list_item"
            /\ currentType = "numbered_list_item" THEN << NL >>
    ELSE IF previousType = "bulleted_list_item"
            /\ currentType = "bulleted_list_item" THEN << NL >>
    ELSE IF currentType \in
              { "heading_1", "heading_2", "heading_3", "table_row", "to_do",
                "numbered_list_item", "bulleted_list_item", "paragraph",
                "divider", "code", "quote", "callout", "image" }
    THEN << NL, NL >>
    ELSE << >>


\* The page header and footer take the override as a variadic argument: o is
\* the sequence of arguments, "nil" a nil function value.  Calling a nil
\* function panics.
RenderPageHeader(title, o) ==
    IF Len(o) > 0
    THEN IF o[1] = "nil" THEN [ panic |-> TRUE, text |-> << >> ]
         ELSE [ panic |-> FALSE, text |-> OvText("PageHeader") ]
    ELSE [ panic |-> FALSE, text |-> << mdHeadingOnePattern, title >> ]

RenderPageFooter(title, o) ==
    IF Len(o) > 0
    THEN IF o[1] = "nil" THEN [ panic |-> TRUE, text |-> << >> ]
         ELSE [ panic |-> FALSE, text |-> OvText("PageFooter") ]
    ELSE [ panic |-> FALSE, text |-> << >> ]

\* the value of a field of OverrideOptions: nil unless the caller set it
Field(ov, slot) == IF slot \in ov THEN "fn" ELSE "nil"

\* -------------------------------------------------------- the page content

\* the Render calls in flight on the one exporter
Calls == { 1, 2 }

\* the page is container 0; blocks are numbered in the order delivered
RootId == 0

Txt(id) == "t" \o ToString(id)

\* The variant tags of one page.  A page draws its blocks from one of these
\* sets; together they cover every tag.
DocKinds ==
    { { "heading_1", "paragraph" },
      { "paragraph", "image" },
      { "bulleted_list_item", "numbered_list_item" },
      { "to_do" },
      { "table", "table_row" },
      { "table", "table_row", "toggle" },
      { "heading_2" },
      { "heading_3" },
      { "divider", "code" },
      { "quote" },
      { "callout" } }

\* the variants the content source never gives children
LeafTypes == { "table_row", "image", "divider", "code" }

\* cells of a table row
RowWidth == 2

\* a block as the content source delivers it, before its id is known
AllShapes(kinds, underTable) ==
    { [ type |-> t, hasChildren |-> h, empty |-> e, checked |-> k,
        img |-> g, rowHeader |-> r ] :
        t \in (IF underTable THEN kinds \cap { "table_row" }
               ELSE kinds \ { "table_row" }),
        h \in BOOLEAN, e \in BOOLEAN, k \in BOOLEAN,
        g \in { "none", "external", "file" }, r \in BOOLEAN }

\* the fields a variant does not have keep their zero value; a leaf
\* variant has no children; canNest caps the nesting of the page
WellFormed(b, canNest) ==
    /\ b.hasChildren => (canNest /\ b.type \notin LeafTypes)
    /\ b.empty => b.type = "paragraph"
    /\ b.checked => b.type = "to_do"
    /\ (b.img # "none") <=> (b.type = "image")
    /\ b.rowHeader => b.type = "table"

Shapes(kinds, underTable, canNest) ==
    { b \in AllShapes(kinds, underTable) : WellFormed(b, canNest) }

\* the rich text of a block
RichTextOf(b) == IF b.empty THEN << >> ELSE << PlainRun(<< Txt(b.id) >>) >>

\* the cells of a table row: RowWidth cells of one plain run each
CellsOf(b) == [ k \in 1..RowWidth |-> << PlainRun(<< Txt(b.id) >>) >> ]

WithId(shape, id) ==
    [ id |-> id, type |-> shape.type, hasChildren |-> shape.hasChildren,
      empty |-> shape.empty, checked |-> shape.checked, img |-> shape.img,
      rowHeader |-> shape.rowHeader ]


\* ------------------------------------------------------------------- state

VARIABLES
    page,     \* exporter.page, the buffer of the one exporter
    pc,       \* per call: "off", "idle", "run" (in Render), "append" (in
              \* RenderAppend), "done", "appended" (returned) or "panic"
    opts,     \* per call: the RenderOptions passed to Render
    doc,      \* per call: the variant tags of the page being exported
    stack,    \* per call: the renderBlocks calls in progress, innermost first
    res,      \* per call: the (bytes, error) Render returned
    nblocks,  \* per call: blocks delivered by the content source so far
    tree,     \* per call: the answers of the children fetches, by container
    trace,    \* per call: what each rendered block appended, in order
    failed,   \* per call: the kinds of failure met: "get" (Render's page
              \* fetch), "page", "children" (renderBlocks' fetches), "image"
    own,      \* per call: the bytes the call itself appended since its reset
    arg,      \* the arguments of the renderer function under study
    out,      \* its result, << "none" >> before it is applied
    world     \* outside the process: the directories, the files with their
              \* content, the HTTP GETs made so far

vars ==
    << page, pc, opts, doc, stack, res, nblocks, tree, trace, failed, own,
       arg, out, world >>

\* tableState's zero value: no table block, row 0
NoTable == [ set |-> FALSE, rowHeader |-> FALSE, currentRow |-> 0 ]

\* RenderOptions' zero value for the unexported fields
RootFrame ==
    [ id |-> RootId, depth |-> 0, previousElementType |-> "",
      tableState |-> NoTable, underTable |-> FALSE, st |-> "fetch",
      blocks |-> << >>, i |-> 1 ]

NoResult == [ bytes |-> << >>, err |-> FALSE ]

\* the slot whose override renders blocks of the variant; "" when the variant
\* has no renderer
SlotOf(type) ==
    CASE type = "heading_1" -> "Header1"
      [] type = "heading_2" -> "Header2"
      [] type = "heading_3" -> "Header3"
      [] type = "paragraph" -> "Paragraph"
      [] type = "bulleted_list_item" -> "BulletedList"
      [] type = "numbered_list_item" -> "NumberedList"
      [] type = "to_do" -> "Todo"
      [] type = "divider" -> "Divider"
      [] type = "code" -> "Code"
      [] type = "table_row" -> "Row"
      [] type = "quote" -> "Quote"
      [] type = "callout" -> "Callout"
      [] type = "image" -> "Image"
      [] OTHER -> ""

\* The option values a caller passes for a page of the given tags.  The
\* overrides: none, the page header alone, both page slots, or both and one
\* block slot.  A flag or a slot that no block of the page can meet is left
\* unset, and a flag is set only beside the two page slots.
OverrideSets(kinds) ==
    { {}, { "PageHeader" }, PageSlots }
        \cup { PageSlots \cup { s } :
                 s \in ({ SlotOf(t) : t \in kinds } \ { "" })
                          \cup { "Padding" } }

RenderOptionSets(kinds) ==
    { o \in [ SkipEmptyParagraphs : BOOLEAN, IgnoreImages : BOOLEAN,
              Overrides : OverrideSets(kinds) ] :
        /\ o.SkipEmptyParagraphs => "paragraph" \in kinds
        /\ o.IgnoreImages => "image" \in kinds
        /\ (o.SkipEmptyParagraphs \/ o.IgnoreImages)
              => o.Overrides = PageSlots }

\* the blocks the content source holds for the page of call c
Budget(c) ==
    IF doc[c] = { "table", "table_row" } THEN MaxTableBlocks ELSE MaxBlocks

TypeOK ==
    /\ pc \in [ Calls -> { "off", "idle", "run", "append", "done", "appended",
                          "panic" } ]
    /\ \A c \in Calls : nblocks[c] \in 0..Budget(c)
    /\ \A c \in Calls : Len(stack[c]) <= MaxDepth
    /\ \A c \in Calls : failed[c] \subseteq { "get", "page", "children", "image" }

\* RenderOptions' zero value
NoOptions ==
    [ SkipEmptyParagraphs |-> FALSE, IgnoreImages |-> FALSE, Overrides |-> {} ]

\* what a call is given: the tags of the page it exports, the options passed
Inputs ==
    { [ kinds |-> k, opts |-> o ] : k \in DocKinds, o \in
          UNION { RenderOptionSets(kk) : kk \in DocKinds } }

ValidInputs == { x \in Inputs : x.opts \in RenderOptionSets(x.kinds) }

NoFunction == << "none" >>

\* no directory, no file, no request made
NoWorld == [ dirs |-> {}, files |-> [ q \in {} |-> "" ], gets |-> 0 ]

\* the content an HTTP GET of an image delivers
Bodies == { "v1", "v2" }

\* what the file system and the network answer during one save: MkdirAll,
\* Stat (FALSE: an error other than not-exist), the GET, Create, Copy.  An
\* answer that a failure before it leaves unasked is given one value.
Envs ==
    { e \in [ mkdirOk : BOOLEAN, statOk : BOOLEAN,
              get : { "200", "404", "err" }, createOk : BOOLEAN,
              copyOk : BOOLEAN, body : Bodies ] :
        /\ e.get # "200" => e.createOk
        /\ ~e.createOk => e.copyOk
        /\ ~e.copyOk => e.body = "v1" }

QuietEnv ==
    [ mkdirOk |-> TRUE, statOk |-> TRUE, get |-> "200", createOk |-> TRUE,
      copyOk |-> TRUE, body |-> "v1" ]

\* the answers met while a page is rendered: all well, or the GET fails
RenderEnvs == { QuietEnv, [ QuietEnv EXCEPT !.get = "err" ] }

\* config.ImageOpts of the options of a call
ImageOptsOf(o) == [ NoImageOpts EXCEPT !.IgnoreImages = o.IgnoreImages ]

\* The exporter after NewExporter, with the calls that will be made on it.
InitCalls(active, inputs) ==
    /\ page = << >>
    /\ pc = [ c \in Calls |-> IF c \in active THEN "idle" ELSE "off" ]
    /\ \E x \in [ active -> inputs ] :
          /\ doc = [ c \in Calls |-> IF c \in active THEN x[c].kinds ELSE {} ]
          /\ opts = [ c \in Calls |->
                        IF c \in active THEN x[c].opts ELSE NoOptions ]
    /\ stack = [ c \in Calls |-> << >> ]
    /\ res = [ c \in Calls |-> NoResult ]
    /\ nblocks = [ c \in Calls |-> 0 ]
    /\ tree = [ c \in Calls |-> [ x \in {} |-> NoResult ] ]
    /\ trace = [ c \in Calls |-> << >> ]
    /\ failed = [ c \in Calls |-> {} ]
    /\ own = [ c \in Calls |-> << >> ]
    /\ arg = << >>
    /\ out = NoFunction
    /\ world = NoWorld

\* one Render call on a fresh exporter
Init == InitCalls({ 1 }, ValidInputs)

\* ----------------------------------------------------------------- helpers

Top(c) == Head(stack[c])

\* blocks delivered to all calls
Delivered == nblocks[1] + nblocks[2]

PageTitle == "Notes"

\* a bug: the depth grows below a table as well
ChildDepthAlways(type, depth) == depth + 1

\* the depth handed to the renderBlocks call for the children of a block
ChildDepth(type, depth) == IF type # "table" THEN depth + 1 ELSE depth

\* the block is left out: an empty paragraph under SkipEmptyParagraphs, an
\* image under IgnoreImages
Skipped(b, o) ==
    \/ b.type = "paragraph" /\ o.SkipEmptyParagraphs /\ Len(RichTextOf(b)) < 1
    \/ b.type = "image" /\ o.IgnoreImages

\* a bug: the row counter is not incremented after a row
TableStateAfterNoIncrement(ts, b) ==
    IF b.type = "table"
    THEN [ set |-> TRUE, rowHeader |-> b.rowHeader, currentRow |-> 0 ]
    ELSE ts

\* config.tableState after the switch on the block's type
TableStateAfter(ts, b) ==
    IF b.type = "table"
    THEN [ set |-> TRUE, rowHeader |-> b.rowHeader, currentRow |-> 0 ]
    ELSE IF b.type = "table_row"
    THEN [ ts EXCEPT !.currentRow = @ + 1 ]
    ELSE ts

\* the tableCell values built for a row
TableCells(b, ts) ==
    [ k \in 1..RowWidth |->
        [ rowTxt |-> RenderText(CellsOf(b)[k]),
          isRowHeader |-> ts.rowHeader /\ ts.currentRow = 0,
          currentRow |-> ts.currentRow ] ]

\* the switch of renderBlocks: the text of the block before padding
Rendered(b, f, ov, img) ==
    LET txt == RenderText(RichTextOf(b))
    IN  CASE b.type = "heading_1" -> RenderPageHeader1(txt, ov)
          [] b.type = "heading_2" -> RenderPageHeader2(txt, ov)
          [] b.type = "heading_3" -> RenderPageHeader3(txt, ov)
          [] b.type = "paragraph" -> RenderParagraph(txt, ov)
          [] b.type = "bulleted_list_item" -> RenderBulletedList(txt, ov)
          [] b.type = "numbered_list_item" -> RenderNumberedList(txt, ov)
          [] b.type = "to_do" -> RenderTodoList(txt, b.checked, ov)
          [] b.type = "divider" -> RenderDivider(ov)
          [] b.type = "code" -> RenderCode(txt, "plain text", ov)
          [] b.type = "table" -> << >>
          [] b.type = "table_row" ->
                RenderTableRow(TableCells(b, f.tableState), ov)
          [] b.type = "quote" -> RenderQuote(txt, ov)
          [] b.type = "callout" -> RenderCallout(txt, ov)
          [] b.type = "image" -> img.text
          [] OTHER -> << >>

\* the padding step of renderBlocks: AddPadding is called with the block alone
Padded(rend, depth, ov) == AddPadding(rend, depth)

\* the frame of the renderBlocks call entered for the children of b
ChildFrame(b, f, ts) ==
    [ id |-> b.id, depth |-> ChildDepth(b.type, f.depth),
      previousElementType |-> b.type, tableState |-> ts,
      underTable |-> (b.type = "table"), st |-> "fetch",
      blocks |-> << >>, i |-> 1 ]

\* a bug: the children are rendered after the siblings that follow
EnterLate(child, rest) == rest \o << child >>

\* the recursive call runs before the loop of the caller goes on
Enter(child, rest) == << child >> \o rest

\* the index of the block the loop takes next
NextIndex(i) == i + 1

\* a bug: the block left out still becomes the previous element
ContinueTagged(f) ==
    [ f EXCEPT !.i = NextIndex(@),
               !.previousElementType = f.blocks[f.i].type ]

\* "continue": the loop goes to the next block, the config untouched
Continue(f) == [ f EXCEPT !.i = NextIndex(@) ]

\* the loop of the renderBlocks call has run out
LoopOver(f) == f.st = "loop" /\ f.i > Len(f.blocks)

RECURSIVE Unwound(_)
\* Every renderBlocks call whose loop has run out returns (e.page, nil) to
\* its caller, which goes on with its own loop; the stack that is left.
Unwound(stk) ==
    IF stk = << >> THEN << >>
    ELSE IF LoopOver(Head(stk)) THEN Unwound(Tail(stk))
    ELSE stk

\* the call is inside renderBlocks, entered from Render or from RenderAppend
Running(c) == pc[c] \in { "run", "append" }

\* The end of a step of call c that appended add and left the stack stk.
\* failedCall: the innermost renderBlocks call returned an error in this
\* step.  A nested call's results are dropped by its caller (the recursive
\* call is a statement of its own); Render takes the root call's: on an error
\* it returns (e.page, error), else it appends the page footer and returns.
\* RenderAppend returns the root call's results as they are.
Settle(c, stk, add, failedCall) ==
    LET rest == Unwound(stk)
        ft == RenderPageFooter(PageTitle,
                  << Field(opts[c].Overrides, "PageFooter") >>)
    IN  IF failedCall /\ Len(stack[c]) = 1
        THEN /\ stack' = [ stack EXCEPT ![c] = << >> ]
             /\ page' = page \o add
             /\ own' = [ own EXCEPT ![c] = @ \o add ]
             /\ pc' = [ pc EXCEPT ![c] =
                          IF @ = "append" THEN "appended" ELSE "done" ]
             /\ res' = [ res EXCEPT ![c] =
                           [ bytes |-> page \o add, err |-> TRUE ] ]
        ELSE IF rest # << >>
        THEN /\ stack' = [ stack EXCEPT ![c] = rest ]
             /\ page' = page \o add
             /\ own' = [ own EXCEPT ![c] = @ \o add ]
             /\ UNCHANGED << pc, res >>
        ELSE IF pc[c] = "append"
        THEN /\ stack' = [ stack EXCEPT ![c] = << >> ]
             /\ page' = page \o add
             /\ own' = [ own EXCEPT ![c] = @ \o add ]
             /\ pc' = [ pc EXCEPT ![c] = "appended" ]
             /\ res' = [ res EXCEPT ![c] =
                           [ bytes |-> page \o add, err |-> FALSE ] ]
        ELSE /\ stack' = [ stack EXCEPT ![c] = << >> ]
             /\ page' = page \o add \o ft.text
             /\ own' = [ own EXCEPT ![c] = @ \o add \o ft.text ]
             /\ pc' = [ pc EXCEPT ![c] = IF ft.panic THEN "panic" ELSE "done" ]
             /\ res' = [ res EXCEPT ![c] =
                           IF ft.panic THEN @
                           ELSE [ bytes |-> page \o add \o ft.text,
                                  err |-> FALSE ] ]

\* ----------------------------------------------------------------- actions

\* Render up to its call of renderBlocks: reset the buffer, fetch the page,
\* append the page header.
Render(c) ==
    /\ pc[c] = "idle"
    /\ \E getOk \in BOOLEAN :
        LET hd == RenderPageHeader(PageTitle,
                      << Field(opts[c].Overrides, "PageHeader") >>)
            bytes == IF getOk THEN hd.text ELSE << >>
        IN  /\ page' = bytes
            /\ own' = [ own EXCEPT ![c] = bytes ]
            /\ failed' = [ failed EXCEPT ![c] = IF getOk THEN {} ELSE { "get" } ]
            /\ pc' = [ pc EXCEPT ![c] =
                         IF ~getOk THEN "done"
                         ELSE IF hd.panic THEN "panic" ELSE "run" ]
            /\ res' = [ res EXCEPT ![c] =
                          IF ~getOk THEN [ bytes |-> << >>, err |-> TRUE ]
                          ELSE @ ]
            /\ stack' = [ stack EXCEPT ![c] =
                            IF getOk /\ ~hd.panic THEN << RootFrame >>
                            ELSE << >> ]
    /\ UNCHANGED << opts, doc, nblocks, tree, trace, arg, out, world >>

\* The head of renderBlocks: fetch the page object of the container, then one
\* answer of the children fetch.  An answer holds at most MaxChildren blocks
\* (the page size); a full one may say that more children follow (hasMore).
\* The code asks once.  A block that reports children has at least one.
FetchChildren(c) ==
    /\ Running(c)
    /\ Top(c).st = "fetch"
    /\ \E outcome \in { "ok", "pageErr", "childErr" },
          n \in 0..MaxChildren, hasMore \in BOOLEAN :
        /\ outcome # "ok" => (n = 0 /\ ~hasMore)
        /\ (outcome = "ok" /\ Len(stack[c]) > 1) => n >= 1
        /\ n <= Budget(c) - Delivered
        /\ hasMore => n = MaxChildren
        /\ \E shapes \in [ 1..n ->
                  Shapes(doc[c], Top(c).underTable,
                         Len(stack[c]) < MaxDepth) ] :
            IF outcome = "ok"
            THEN LET results ==
                        [ k \in 1..n |-> WithId(shapes[k], nblocks[c] + k) ]
                 IN  /\ Settle(c, << [ Top(c) EXCEPT !.st = "loop",
                                                    !.blocks = results ] >>
                                     \o Tail(stack[c]),
                               << >>, FALSE)
                     /\ nblocks' = [ nblocks EXCEPT ![c] = @ + n ]
                     /\ tree' = [ tree EXCEPT ![c] =
                            @ @@ (Top(c).id :>
                                    [ results |-> results,
                                      hasMore |-> hasMore ]) ]
                     /\ UNCHANGED failed
            ELSE /\ Settle(c, Tail(stack[c]), << >>, TRUE)
                 /\ failed' = [ failed EXCEPT ![c] =
                        @ \cup { IF outcome = "pageErr" THEN "page"
                                 ELSE "children" } ]
                 /\ UNCHANGED << nblocks, tree >>
    /\ UNCHANGED << opts, doc, trace, arg, out, world >>

\* One turn of the loop of renderBlocks over the fetched blocks.
RenderBlock(c) ==
    /\ Running(c)
    /\ Top(c).st = "loop"
    /\ \E env \in RenderEnvs :
        LET f == Top(c)
            b == f.blocks[f.i]
            o == opts[c]
            ov == o.Overrides
            img == RenderImage(b, ov, ImageOptsOf(o), world, env)
            ts == TableStateAfter(f.tableState, b)
            rend == Rendered(b, f, ov, img)
            padded == Padded(rend, f.depth, ov)
            sep == AddSectionSeperation(f.previousElementType, b.type)
            f1 == [ f EXCEPT !.i = NextIndex(@),
                             !.previousElementType = b.type,
                             !.tableState = ts ]
        IN  /\ (b.type = "image" /\ b.img = "file") \/ env = QuietEnv
            /\ world' = IF b.type = "image" /\ ~Skipped(b, o) THEN img.world
                        ELSE world
            /\ IF Skipped(b, o)
               THEN /\ Settle(c, << Continue(f) >> \o Tail(stack[c]),
                              << >>, FALSE)
                    /\ UNCHANGED << trace, failed >>
               ELSE IF \/ b.type = "table_row" /\ ~f.tableState.set
                       \/ b.type = "image" /\ img.panic
               THEN \* nil table block dereferenced; index out of range
                    /\ pc' = [ pc EXCEPT ![c] = "panic" ]
                    /\ UNCHANGED << page, own, stack, res, trace, failed >>
               ELSE IF b.type = "image" /\ img.err
               THEN /\ Settle(c, Tail(stack[c]), << >>, TRUE)
                    /\ failed' = [ failed EXCEPT ![c] = @ \cup { "image" } ]
                    /\ UNCHANGED trace
               ELSE /\ Settle(c,
                              IF b.hasChildren
                              THEN Enter(ChildFrame(b, f1, ts),
                                         << f1 >> \o Tail(stack[c]))
                              ELSE << f1 >> \o Tail(stack[c]),
                              sep \o padded, FALSE)
                    /\ trace' = [ trace EXCEPT ![c] = Append(@,
                           [ id |-> b.id, type |-> b.type, depth |-> f.depth,
                             previous |-> f.previousElementType,
                             sep |-> sep, rend |-> rend, out |-> padded,
                             row |-> f.tableState.currentRow ]) ]
                    /\ UNCHANGED failed
    /\ UNCHANGED << opts, doc, nblocks, tree, arg, out >>

Next ==
    \E c \in Calls :
        \/ Render(c)
        \/ FetchChildren(c)
        \/ RenderBlock(c)

Spec == Init /\ [][Next]_vars


\* ------------------------------------------------- two calls, one exporter

\* what each of two concurrent calls is given: a page of headings and
\* paragraphs, both page slots overridden
ConcInputs ==
    { [ kinds |-> { "heading_1", "paragraph" },
        opts |-> [ NoOptions EXCEPT !.Overrides = PageSlots ] ] }

InitConc == InitCalls({ 1, 2 }, ConcInputs)

\* Two goroutines call Render on the same exporter; their steps interleave.
SpecConc == InitConc /\ [][Next]_vars

\* ------------------------------------------------------------ RenderAppend

\* a bug: the buffer is reset before the separation is added
AppendStartReset(buf) == << NL, NL >>

\* the buffer after RenderAppend's first statement
AppendStart(buf) == buf \o << NL, NL >>

\* RenderAppend up to its call of renderBlocks
RenderAppend(c) ==
    /\ pc[c] = "idle"
    /\ page' = AppendStart(page)
    /\ own' = [ own EXCEPT ![c] = << NL, NL >> ]
    /\ pc' = [ pc EXCEPT ![c] = "append" ]
    /\ stack' = [ stack EXCEPT ![c] = << RootFrame >> ]
    /\ UNCHANGED << opts, doc, res, nblocks, tree, trace, failed, arg, out,
                    world >>

\* the buffers an exporter holds when RenderAppend is called: none after
\* NewExporter, or the page an earlier Render left
PriorPages ==
    { << >>,
      << "@PageHeader", NL, NL, "# ", "t1", "@PageFooter" >> }

\* the pages appended: headings and paragraphs, every choice of options
AppendInputs == { x \in ValidInputs : x.kinds = { "heading_1", "paragraph" } }

\* arg keeps the buffer the exporter held before the call
InitAppend ==
    /\ page \in PriorPages
    /\ arg = page
    /\ out = NoFunction
    /\ world = NoWorld
    /\ pc = [ c \in Calls |-> IF c = 1 THEN "idle" ELSE "off" ]
    /\ \E x \in AppendInputs :
          /\ doc = [ c \in Calls |-> IF c = 1 THEN x.kinds ELSE {} ]
          /\ opts = [ c \in Calls |-> IF c = 1 THEN x.opts ELSE NoOptions ]
    /\ stack = [ c \in Calls |-> << >> ]
    /\ res = [ c \in Calls |-> NoResult ]
    /\ nblocks = [ c \in Calls |-> 0 ]
    /\ tree = [ c \in Calls |-> [ x \in {} |-> NoResult ] ]
    /\ trace = [ c \in Calls |-> << >> ]
    /\ failed = [ c \in Calls |-> {} ]
    /\ own = [ c \in Calls |-> << >> ]

NextAppend ==
    \E c \in Calls :
        \/ RenderAppend(c)
        \/ FetchChildren(c)
        \/ RenderBlock(c)

SpecAppend == InitAppend /\ [][NextAppend]_vars

\* ------------------------------------------- the separator, as a function

\* the state of the exporter: all the variables but arg and out
exporterVars ==
    << page, pc, opts, doc, stack, res, nblocks, tree, trace, failed, own >>

\* no call is made on the exporter: a renderer function is called alone
NoCalls ==
    /\ page = << >>
    /\ pc = [ c \in Calls |-> "off" ]
    /\ doc = [ c \in Calls |-> {} ]
    /\ opts = [ c \in Calls |-> NoOptions ]
    /\ stack = [ c \in Calls |-> << >> ]
    /\ res = [ c \in Calls |-> NoResult ]
    /\ nblocks = [ c \in Calls |-> 0 ]
    /\ tree = [ c \in Calls |-> [ x \in {} |-> NoResult ] ]
    /\ trace = [ c \in Calls |-> << >> ]
    /\ failed = [ c \in Calls |-> {} ]
    /\ own = [ c \in Calls |-> << >> ]

InitSep ==
    /\ NoCalls
    /\ arg \in TagValues \X TagValues
    /\ out = NoFunction
    /\ world = NoWorld

\* the call AddSectionSeperation(previousType, currentType), no override
ApplySep ==
    /\ out = NoFunction
    /\ out' = AddSectionSeperation(arg[1], arg[2])
    /\ UNCHANGED << page, pc, opts, doc, stack, res, nblocks, tree, trace,
                    failed, own, arg, world >>

NextSep == ApplySep

SpecSep == InitSep /\ [][NextSep]_vars

\* ------------------------------------------------- images, saved or not

\* HTTP GETs in one run
MaxGets == 2

\* the one hosted image, an image referenced from elsewhere, an image block
\* with neither reference, and a block that is no image
ImageBlocks ==
    { [ id |-> 1, type |-> "image", img |-> g ] :
        g \in { "file", "external", "none" } }
      \cup { [ id |-> 1, type |-> "paragraph", img |-> "none" ] }

\* the addresses passed to SaveNotionImageToFilesystem: one url.Parse
\* rejects, the paths "", "/x", and the address of the hosted image
Addresses ==
    { [ ok |-> FALSE, resources |-> << >> ],
      [ ok |-> TRUE, resources |-> << "" >> ],
      [ ok |-> TRUE, resources |-> << "", "x" >> ],
      FileURL([ id |-> 1 ]) }

\* the ImageSaveOptions a caller can pass
SaveOptions ==
    [ SavePath : { "", "out" }, IgnoreImages : { FALSE },
      OverwriteExisting : BOOLEAN ]

\* the variadic argument: no option, or one
SaveOptionArgs == { << >> } \cup { << o >> : o \in SaveOptions }

\* the file a save of the address writes, "" when the address names none
TargetPath(address, o) ==
    IF address.ok /\ Len(address.resources) >= 3
    THEN Join(ResolveImageSaveOptions(o).SavePath, address.resources[3])
            \o notionImageExtension
    ELSE ""

NoArg ==
    [ fn |-> "none", address |-> [ ok |-> FALSE, resources |-> << >> ],
      opts |-> << >>, b |-> [ id |-> 1, type |-> "paragraph", img |-> "none" ],
      ov |-> {} ]

\* out also keeps what the call met: whether the target file existed and
\* whether an HTTP GET was made
NoOut ==
    [ fn |-> "none", path |-> "", text |-> << >>, err |-> FALSE,
      panic |-> FALSE, existed |-> FALSE, fetched |-> FALSE ]

\* a file system that is empty, or holds the image saved by an earlier run
InitImage ==
    /\ NoCalls
    /\ arg = NoArg
    /\ out = NoOut
    /\ world \in
          { NoWorld,
            [ dirs |-> { defaultImageSaveLocation },
              files |-> [ q \in { "images/f1.png" } |-> "v0" ],
              gets |-> 0 ] }

\* a call of SaveNotionImageToFilesystem(address, opts...)
SaveImage ==
    /\ ~out.panic
    /\ world.gets < MaxGets
    /\ \E address \in Addresses, o \in SaveOptionArgs, env \in Envs :
        LET r == SaveNotionImageToFilesystem(address, o, world, env)
        IN  /\ TargetPath(address, o) = ""
                  => env \in { QuietEnv, [ QuietEnv EXCEPT !.mkdirOk = FALSE ] }
            /\ arg' = [ NoArg EXCEPT !.fn = "save", !.address = address,
                                     !.opts = o ]
            /\ out' = [ NoOut EXCEPT
                          !.fn = "save", !.path = r.path, !.err = r.err,
                          !.panic = r.panic,
                          !.existed = TargetPath(address, o)
                                          \in DOMAIN world.files,
                          !.fetched = r.world.gets > world.gets ]
            /\ world' = r.world
    /\ UNCHANGED exporterVars

\* a call of RenderImage(b, override) for a block whose options hold o
CallRenderImage ==
    /\ ~out.panic
    /\ world.gets < MaxGets
    /\ \E b \in ImageBlocks, ov \in { {}, { "Image" } }, o \in SaveOptions,
          env \in Envs :
        LET r == RenderImage(b, ov, o, world, env)
        IN  /\ (b.img = "file" /\ ov = {}) \/ env = QuietEnv
            /\ arg' = [ NoArg EXCEPT !.fn = "render", !.b = b, !.ov = ov,
                                     !.opts = << o >> ]
            /\ out' = [ NoOut EXCEPT
                          !.fn = "render", !.text = r.text, !.err = r.err,
                          !.panic = r.panic,
                          !.existed = TargetPath(FileURL(b), << o >>)
                                          \in DOMAIN world.files,
                          !.fetched = r.world.gets > world.gets ]
            /\ world' = r.world
    /\ UNCHANGED exporterVars

NextImage == SaveImage \/ CallRenderImage

SpecImage == InitImage /\ [][NextImage]_vars

\* ----------------------------------------------- AddPadding, as a function

\* atoms of the text passed to AddPadding
MaxTextLen == 4
\* depth of the block passed to AddPadding
MaxPadDepth == 2

\* rendered text: characters and line breaks
Texts == UNION { [ 1..n -> { "a", NL } ] : n \in 0..MaxTextLen }

InitPad ==
    /\ NoCalls
    /\ arg \in Texts \X (0..MaxPadDepth)
    /\ out = NoFunction
    /\ world = NoWorld

\* the call AddPadding(&Block{Text: txt, Depth: depth}), no override
ApplyPad ==
    /\ out = NoFunction
    /\ out' = AddPadding(arg[1], arg[2])
    /\ UNCHANGED << exporterVars, arg, world >>

NextPad == ApplyPad

SpecPad == InitPad /\ [][NextPad]_vars

\* ----------------------------------------------- RenderText, as a function

\* runs of rich text in one call
MaxRuns == 2

\* the contents of a run: text, or text with a percent sign
Contents == { << "a" >>, << "a", "%" >>, << "%", "a" >> }

\* na.RichText: content, link target, annotations
Runs ==
    [ content : Contents, href : { "", "u" }, bold : BOOLEAN,
      italic : BOOLEAN, strike : BOOLEAN, code : BOOLEAN ]

InitText ==
    /\ NoCalls
    /\ arg \in UNION { [ 1..n -> Runs ] : n \in 0..MaxRuns }
    /\ out = NoFunction
    /\ world = NoWorld

\* the call RenderText(rt), no override
ApplyText ==
    /\ out = NoFunction
    /\ out' = RenderText(arg)
    /\ UNCHANGED << exporterVars, arg, world >>

NextText == ApplyText

SpecText == InitText /\ [][NextText]_vars


\* ---------------------------------------------------- NewExporter, the CLI

notionApiEnvVar == "NOTION_TOKEN"

defaultFormat == "markdown"

\* An error is the sequence of the parts of its message; << >> is nil.
NoError == << >>

\* NewRenderer(kind): the renderer of an export format, "nil" with an error
\* for a format without renderer.
NewRenderer(kind) ==
    IF kind = "markdown" THEN [ r |-> "MDRenderer", err |-> NoError ]
    ELSE IF kind = "md" THEN [ r |-> "MDRenderer", err |-> NoError ]
    ELSE [ r |-> "nil", err |-> << "No renderer support for type ", kind >> ]

\* the configuration file: unreadable, or read with the token it holds
ConfigFiles ==
    { [ ok |-> FALSE, Token |-> "" ], [ ok |-> TRUE, Token |-> "" ],
      [ ok |-> TRUE, Token |-> "tok-cfg" ] }

\* the process environment: the value of each variable, "" when unset
Environments == [ { notionApiEnvVar } -> { "", "tok-env" } ]

\* config.LoadNexpConfig()
LoadNexpConfig(conf) ==
    IF ~conf.ok
    THEN [ conf |-> conf,
           err |-> << "failed loading configuraiton file, error: ",
                      "<os error>", NL >> ]
    ELSE [ conf |-> conf, err |-> NoError ]

\* resolveNotionToken(): the token of the environment variable, else that of
\* the configuration file; stdout is what the call prints.
resolveNotionToken(env, conf) ==
    LET t == env[notionApiEnvVar]
        loaded == LoadNexpConfig(conf)
    IN  IF t # ""
        THEN [ token |-> t, err |-> NoError, stdout |-> << t, NL >> ]
        ELSE IF loaded.err # NoError
        THEN [ token |-> t, err |-> loaded.err, stdout |-> << >> ]
        ELSE IF loaded.conf.Token = ""
        THEN [ token |-> t,
               err |-> << "Token retrieved from configuration was empty" >>,
               stdout |-> << >> ]
        ELSE [ token |-> loaded.conf.Token, err |-> NoError,
               stdout |-> << >> ]

\* ExporterOptions; Renderer and ClientOpts are "nil" or a value of the caller
ExporterOptionValues ==
    [ NotionToken : { "", "tok-opt" }, ClientOpts : { "nil", "custom" },
      Format : { "", "markdown", "md", "html" },
      Renderer : { "nil", "CallerRenderer" } ]

NoExporter == [ token |-> "", clientOpts |-> "nil", Renderer |-> "nil" ]

\* the renderer NewExporter takes from the options: the one passed, else the
\* one of opts[0].Format.  The format with the default put in for "" is
\* computed and not used.
RendererOfOptions(o) ==
    IF o[1].Renderer # "nil" THEN [ r |-> o[1].Renderer, err |-> NoError ]
    ELSE LET format == IF o[1].Format = "" THEN defaultFormat
                       ELSE o[1].Format
         IN  NewRenderer(o[1].Format)

\* NewExporter(opts...): o is the sequence of the options passed, of which
\* the first counts.
NewExporter(o, env, conf) ==
    LET given == Len(o) > 0
        r == IF given THEN RendererOfOptions(o) ELSE NewRenderer(defaultFormat)
        passed == IF given THEN o[1].NotionToken ELSE ""
        notionClientOpts == IF given THEN o[1].ClientOpts ELSE "nil"
        tk == IF passed = "" THEN resolveNotionToken(env, conf)
              ELSE [ token |-> passed, err |-> NoError, stdout |-> << >> ]
    IN  IF r.err # NoError
        THEN [ e |-> NoExporter, err |-> r.err, stdout |-> << >> ]
        ELSE IF tk.err # NoError
        THEN [ e |-> NoExporter, err |-> tk.err, stdout |-> tk.stdout ]
        ELSE [ e |-> [ token |-> tk.token, clientOpts |-> notionClientOpts,
                       Renderer |-> r.r ],
               err |-> NoError, stdout |-> tk.stdout ]

\* a page reference on the command line with the 32-character identifier
\* the pattern finds at its end, "" when there is none
PageRefs ==
    { [ text |-> "notes", id |-> "" ],
      [ text |-> "https://notion.so/n-<id>", id |-> "<id>" ] }

\* the command line of export and what the run meets: the format flag, the
\* page references, the to-file flag, how Render ends, whether the file can
\* be written
Commands ==
    [ format : { "", "markdown", "md", "html" },
      args : { << >> } \cup { << p >> : p \in PageRefs },
      toFile : { "", "out.md" },
      render : { "ok", "err" },
      writeOk : BOOLEAN ]

\* RunExport(cmd, args): what the command writes to standard output and to
\* the file, and the exit code.
RunExport(cmd, env, conf) ==
    LET eopts == [ NotionToken |-> "", ClientOpts |-> "nil",
                   Format |-> cmd.format, Renderer |-> "nil" ]
        made == NewExporter(<< eopts >>, env, conf)
        attached == NewRenderer(cmd.format)
        Exit(code, printed) ==
            [ stdout |-> made.stdout \o printed, exit |-> code,
              file |-> << >> ]
    IN  IF made.err # NoError
        THEN Exit(1, << "Failed creating exporter. Error: " >> \o made.err)
        ELSE IF attached.err # NoError
        THEN Exit(1, << "Failed attaching renderer to exporter. Error: " >>
                         \o attached.err)
        ELSE IF Len(cmd.args) < 1
        THEN Exit(1, << "A proper page identifier was not provided.", NL >>)
        ELSE IF cmd.args[1].id = ""
        THEN Exit(1, << "Could not detect valid page UUID for ",
                        cmd.args[1].text, NL >>)
        ELSE IF cmd.render = "err"
        THEN Exit(1, << "Page exporting failed. Error: ",
                        "<render error>", NL >>)
        ELSE IF cmd.toFile = ""
        THEN Exit(0, << "<page>", NL >>)
        ELSE IF ~cmd.writeOk
        THEN Exit(0, << "Failed to write file to ", cmd.toFile,
                        ", error: ", "<os error>" >>)
        ELSE [ stdout |-> made.stdout, exit |-> 0, file |-> << "<page>" >> ]

\* arg and out before a call
NoCommand ==
    [ format |-> "", args |-> << >>, toFile |-> "", render |-> "ok",
      writeOk |-> TRUE ]

NoCallArg ==
    [ fn |-> "none", o |-> << >>, cmd |-> NoCommand,
      env |-> [ v \in { notionApiEnvVar } |-> "" ],
      conf |-> [ ok |-> FALSE, Token |-> "" ] ]

NoCallOut ==
    [ fn |-> "none", e |-> NoExporter, err |-> NoError, stdout |-> << >>,
      exit |-> 0, file |-> << >> ]

\* the process before the call: its environment and configuration file
InitExporter ==
    /\ NoCalls
    /\ \E env \in Environments, conf \in ConfigFiles :
          arg = [ NoCallArg EXCEPT !.env = env, !.conf = conf ]
    /\ out = NoCallOut
    /\ world = NoWorld

\* a caller of the package calls NewExporter with no options or with one
CallNewExporter ==
    /\ out.fn = "none"
    /\ \E o \in { << >> } \cup { << x >> : x \in ExporterOptionValues } :
        LET r == NewExporter(o, arg.env, arg.conf)
        IN  /\ arg' = [ arg EXCEPT !.fn = "NewExporter", !.o = o ]
            /\ out' = [ NoCallOut EXCEPT !.fn = "NewExporter", !.e = r.e,
                                         !.err = r.err, !.stdout = r.stdout ]
    /\ UNCHANGED << exporterVars, world >>

\* the command nexp export is run
CallRunExport ==
    /\ out.fn = "none"
    /\ \E cmd \in Commands :
        LET r == RunExport(cmd, arg.env, arg.conf)
        IN  /\ cmd.toFile = "" => cmd.writeOk
            /\ arg' = [ arg EXCEPT !.fn = "RunExport", !.cmd = cmd ]
            /\ out' = [ NoCallOut EXCEPT !.fn = "RunExport",
                                         !.stdout = r.stdout,
                                         !.exit = r.exit, !.file = r.file ]
    /\ UNCHANGED << exporterVars, world >>

NextExporter == CallNewExporter \/ CallRunExport

SpecExporter == InitExporter /\ [][NextExporter]_vars


\* ------------------------------------------------------------------ claims

Range(f) == { f[x] : x \in DOMAIN f }

\* the blocks the content source delivered to call c
AllBlocks(c) == UNION { Range(tree[c][k].results) : k \in DOMAIN tree[c] }

BlockById(c, id) == CHOOSE b \in AllBlocks(c) : b.id = id

\* the container whose answer holds the block
ParentOf(c, id) ==
    CHOOSE k \in DOMAIN tree[c] :
        \E i \in 1..Len(tree[c][k].results) : tree[c][k].results[i].id = id

TraceIds(c) == [ i \in 1..Len(trace[c]) |-> trace[c][i].id ]

\* a block the options leave out
IsSkippedBlock(b, o) ==
    \/ b.type = "paragraph" /\ b.empty /\ o.SkipEmptyParagraphs
    \/ b.type = "image" /\ o.IgnoreImages

RECURSIVE PreorderOf(_, _)
\* depth-first pre-order of the delivered blocks below a list of siblings,
\* the blocks the options leave out taken away with their subtrees
PreorderOf(c, blocks) ==
    IF blocks = << >> THEN << >>
    ELSE LET b == Head(blocks)
         IN  (IF IsSkippedBlock(b, opts[c]) THEN << >>
              ELSE << b.id >>
                   \o (IF b.id \in DOMAIN tree[c]
                       THEN PreorderOf(c, tree[c][b.id].results)
                       ELSE << >>))
             \o PreorderOf(c, Tail(blocks))

\* what the rendered blocks appended, in the order of the trace
TraceBytes(c) ==
    Cat([ i \in 1..Len(trace[c]) |-> trace[c][i].sep \o trace[c][i].out ])

Succeeded(c) == pc[c] = "done" /\ ~res[c].err /\ failed[c] = {}

\* C1: when Render returns and no fetch failed, the bytes are the page
\* header, then what each delivered block appended, in depth-first pre-order
\* of the delivered tree (a block before its children, these before its next
\* sibling), each once, then the footer.
C1_PreOrder ==
    \A c \in Calls :
        Succeeded(c) =>
            /\ TraceIds(c) = PreorderOf(c, tree[c][RootId].results)
            /\ res[c].bytes =
                  OvText("PageHeader") \o TraceBytes(c) \o OvText("PageFooter")

\* a block with a child and a later sibling was rendered: 1, its child 3, 2
C1_Witness ==
    /\ Succeeded(1)
    /\ TraceIds(1) = << 1, 3, 2 >>
    /\ ParentOf(1, 3) = 1

RECURSIVE NonTableOnPath(_, _)
\* the blocks other than tables on the path from the page to the container
NonTableOnPath(c, id) ==
    IF id = RootId THEN 0
    ELSE NonTableOnPath(c, ParentOf(c, id))
         + (IF BlockById(c, id).type = "table" THEN 0 ELSE 1)

\* C2: every renderBlocks call in progress has the depth of its container:
\* 0 for the page, the parent's depth + 1 below a block that is no table,
\* the table's own depth below a table; and every block was rendered with
\* the depth of the call that rendered it.
C2_Depth ==
    \A c \in Calls :
        /\ \A i \in 1..Len(stack[c]) :
              stack[c][i].depth = NonTableOnPath(c, stack[c][i].id)
        /\ \A i \in 1..Len(trace[c]) :
              trace[c][i].depth =
                  NonTableOnPath(c, ParentOf(c, trace[c][i].id))

\* the rows of a table at depth 0 and the child of a paragraph-like block
\* were both entered: a row rendered at depth 0
C2_Witness ==
    \E i \in 1..Len(trace[1]) :
        /\ trace[1][i].type = "table_row"
        /\ trace[1][i].depth = 0
        /\ Len(stack[1]) = 2
        /\ BlockById(1, stack[1][1].id).type = "table"


\* the tags that group tightly, and the tags that render on their own
TightTags ==
    { "table_row", "to_do", "numbered_list_item", "bulleted_list_item" }

RenderableTags ==
    { "heading_1", "heading_2", "heading_3", "paragraph",
      "bulleted_list_item", "numbered_list_item", "to_do", "table_row",
      "divider", "code", "quote", "callout", "image" }

\* C3: for every pair of tags the separator is a single line break when the
\* two are the same tight tag, else a double line break when the current tag
\* renders on its own, else the empty string.
C3_Separator ==
    out # NoFunction =>
        out = (IF arg[1] = arg[2] /\ arg[2] \in TightTags THEN << NL >>
               ELSE IF arg[2] \in RenderableTags THEN << NL, NL >>
               ELSE << >>)

\* the separator between two todo items was computed
C3_Witness == arg = << "to_do", "to_do" >> /\ out = << NL >>

\* C4: a failed children fetch or a failed image, at any depth, makes Render
\* return an error.
C4_ErrorReturned ==
    \A c \in Calls :
        (pc[c] = "done" /\ failed[c] \cap { "children", "image" } # {})
            => res[c].err

\* C5: the bytes Render returns beside an error hold no partial output.
C5_NoPartialOutput ==
    \A c \in Calls : (pc[c] = "done" /\ res[c].err) => res[c].bytes = << >>

\* C6: when Render returns without error, no container is left with an
\* answer that announced more children and was not followed by a further
\* fetch (the model, like the code, has no further fetch).
C6_AllPagesRead ==
    \A c \in Calls :
        (pc[c] = "done" /\ ~res[c].err)
            => \A k \in DOMAIN tree[c] : ~tree[c][k].hasMore

\* C7: a call that returns without error returns the bytes it appended itself
\* since its reset (what it returns when run alone), whatever the other call
\* does meanwhile.
C7_Isolated ==
    \A c \in Calls :
        (pc[c] = "done" /\ ~res[c].err) => res[c].bytes = own[c]

\* C8: with neither page slot overridden Render does not panic, and the bytes
\* it returns on success start with the default header and end with the
\* last block.
C8_DefaultHeaderFooter ==
    \A c \in Calls :
        opts[c].Overrides \cap PageSlots = {} =>
            /\ pc[c] # "panic"
            /\ Succeeded(c) =>
                  res[c].bytes
                      = << mdHeadingOnePattern, PageTitle >> \o TraceBytes(c)

\* C9: for every slot, a block the slot applies to is rendered as the
\* override returns when the slot is set; with the padding slot set every
\* block is appended as the padding override returns.
C9_OverridesUsed ==
    \A c \in Calls : \A i \in 1..Len(trace[c]) :
        LET r == trace[c][i]
        IN  /\ SlotOf(r.type) \in opts[c].Overrides
                  => r.rend = OvText(SlotOf(r.type))
            /\ "Padding" \in opts[c].Overrides => r.out = OvText("Padding")


\* the tag a renderBlocks call starts with: none for the page, else the tag
\* of the block whose children it renders
EntryTag(c, k) == IF k = RootId THEN "" ELSE BlockById(c, k).type

\* the tag before a block once the blocks left out are taken away: that of
\* the nearest earlier sibling that is kept, else the tag the call started
\* with
PrevKept(c, id) ==
    LET k == ParentOf(c, id)
        sibs == tree[c][k].results
        j == CHOOSE n \in 1..Len(sibs) : sibs[n].id = id
        kept == { n \in 1..(j - 1) : ~IsSkippedBlock(sibs[n], opts[c]) }
    IN  IF kept = {} THEN EntryTag(c, k)
        ELSE sibs[CHOOSE n \in kept : \A m \in kept : m <= n].type

\* the page of scenario D: heading, empty paragraph, heading, no children,
\* rendered with skip-empty-paragraphs and the two page slots
ScenarioD(c) ==
    /\ opts[c] = [ SkipEmptyParagraphs |-> TRUE, IgnoreImages |-> FALSE,
                   Overrides |-> PageSlots ]
    /\ RootId \in DOMAIN tree[c]
    /\ LET r == tree[c][RootId].results
       IN  /\ Len(r) = 3
           /\ r[1].type = "heading_1" /\ r[3].type = "heading_1"
           /\ r[2].type = "paragraph" /\ r[2].empty
           /\ \A n \in 1..3 : ~r[n].hasChildren

\* C10: a block the options leave out is not rendered and its children are
\* never fetched; every rendered block follows the tag it would follow with
\* the blocks left out taken away; the bytes returned are those of the
\* rendered blocks alone; heading, empty paragraph, heading renders as
\* heading, heading.
C10_SkippedLeavesNoTrace ==
    \A c \in Calls :
        /\ \A b \in AllBlocks(c) :
              IsSkippedBlock(b, opts[c]) =>
                  /\ b.id \notin Range(TraceIds(c))
                  /\ b.id \notin DOMAIN tree[c]
        /\ \A i \in 1..Len(trace[c]) :
              trace[c][i].previous = PrevKept(c, trace[c][i].id)
        /\ Succeeded(c) =>
              res[c].bytes = own[c] /\ own[c] =
                  OvText("PageHeader") \o TraceBytes(c) \o OvText("PageFooter")
        /\ (Succeeded(c) /\ ScenarioD(c)) =>
              res[c].bytes =
                  << "@PageHeader", NL, NL, "# ", "t1", NL, NL, "# ", "t3",
                     "@PageFooter" >>

\* scenario D was rendered to the end
C10_Witness == Succeeded(1) /\ ScenarioD(1)


\* the place of a block among the children of its container, from 0
IndexInParent(c, id) ==
    LET sibs == tree[c][ParentOf(c, id)].results
    IN  (CHOOSE n \in 1..Len(sibs) : sibs[n].id = id) - 1

\* C11: every row of every table is rendered with the row counter equal to
\* its place among the rows of its table, counted from 0: 0 for the first
\* row of each table, one more after each rendered row.
C11_RowCounter ==
    \A c \in Calls : \A i \in 1..Len(trace[c]) :
        trace[c][i].type = "table_row"
            => trace[c][i].row = IndexInParent(c, trace[c][i].id)

\* two sibling tables: the first rendered with rows 0 and 1, then the first
\* row of the second rendered with row 0
C11_Witness ==
    /\ Len(trace[1]) = 5
    /\ ParentOf(1, 1) = RootId /\ ParentOf(1, 2) = RootId
    /\ TraceIds(1) = << 1, 3, 4, 2, 5 >>
    /\ trace[1][2].row = 0 /\ trace[1][3].row = 1 /\ trace[1][5].row = 0
    /\ trace[1][5].type = "table_row"


\* a row as the claim describes it: the pipe-delimited cells, and beneath
\* them the header-separator line when asked for
RowText(b, withSeparator) ==
    Cat([ k \in 1..RowWidth |->
            << "| " >> \o RenderText(CellsOf(b)[k]) \o << " " >> ])
        \o << "|" >>
        \o (IF withSeparator
            THEN << NL >> \o Repeat(<< "| --- " >>, RowWidth) \o << "|" >>
            ELSE << >>)

\* C12: a row rendered by the default RenderTableRow carries the
\* header-separator line if and only if its row index is 0 and its table
\* declares a row header.
C12_HeaderSeparator ==
    \A c \in Calls : \A i \in 1..Len(trace[c]) :
        LET r == trace[c][i]
        IN  (r.type = "table_row" /\ "Row" \notin opts[c].Overrides)
                => r.rend =
                     RowText(BlockById(c, r.id),
                             r.row = 0 /\ BlockById(c, ParentOf(c, r.id)).rowHeader)


\* the one form of a run under the precedence link, bold, italic,
\* strikethrough, inline code, plain
FormOf(t) ==
    IF t.href # "" THEN << "[" >> \o t.content \o << "](", t.href, ")" >>
    ELSE IF t.bold THEN << "**" >> \o t.content \o << "**" >>
    ELSE IF t.italic THEN << "_" >> \o t.content \o << "_" >>
    ELSE IF t.strike THEN << "~" >> \o t.content \o << "~" >>
    ELSE IF t.code THEN << "<tick>" >> \o t.content \o << "<tick>" >>
    ELSE t.content

\* C13: RenderText returns the forms of its runs, one form per run chosen by
\* the precedence, concatenated in input order with nothing between them;
\* the empty sequence gives the empty string.
C13_RunForms ==
    out # NoFunction => out = Cat([ k \in 1..Len(arg) |-> FormOf(arg[k]) ])


\* C14: the bytes a successful RenderAppend returns are the buffer the
\* exporter held before the call, unchanged, then a double line break, then
\* what the blocks of the page appended.
C14_AppendKeepsPrefix ==
    \A c \in Calls :
        (pc[c] = "appended" /\ ~res[c].err)
            => res[c].bytes = arg \o << NL, NL >> \o TraceBytes(c)

\* RenderAppend returned on an exporter that held a page, having rendered a
\* block with a child
C14_Witness ==
    /\ pc[1] = "appended" /\ ~res[1].err
    /\ arg # << >>
    /\ \E i \in 1..Len(trace[1]) : trace[1][i].depth = 1

\* C15: the bytes a successful RenderAppend adds after the double line
\* break are those Render returns for the page with the same options: the
\* page header, the blocks, the page footer.
C15_AppendEqualsRender ==
    \A c \in Calls :
        (pc[c] = "appended" /\ ~res[c].err /\ failed[c] = {}
           /\ PageSlots \subseteq opts[c].Overrides)
            => res[c].bytes =
                  arg \o << NL, NL >> \o OvText("PageHeader")
                      \o TraceBytes(c) \o OvText("PageFooter")


\* the call asks for overwriting
OverwriteRequested(a) == Len(a.opts) >= 1 /\ a.opts[1].OverwriteExisting

\* C16: a call of SaveNotionImageToFilesystem whose target file exists and
\* that does not ask for overwriting returns the path of that file without
\* error, makes no HTTP GET and leaves every file as it was; so does every
\* repetition of it.
C16_SaveIdempotent ==
    [][ (/\ arg'.fn = "save"
         /\ TargetPath(arg'.address, arg'.opts) \in DOMAIN world.files
         /\ ~OverwriteRequested(arg'))
            => /\ out'.path = TargetPath(arg'.address, arg'.opts)
               /\ ~out'.err /\ ~out'.panic
               /\ world'.gets = world.gets
               /\ world'.files = world.files ]_vars

\* the image was fetched and written by one call, and a later call for it
\* found the file and returned its path
C16_Witness ==
    /\ out.fn = "save" /\ out.existed /\ ~out.fetched
    /\ ~OverwriteRequested(arg)
    /\ world.gets = 1
    /\ out.path = "out/f1.png"
    /\ world.files["out/f1.png"] \in Bodies

\* C17: a call that asks for overwriting and whose target file exists makes
\* an HTTP GET.
C17_OverwriteFetches ==
    (out.fn = "save" /\ out.existed /\ OverwriteRequested(arg))
        => out.fetched

\* C18: RenderImage of an image block with an external reference, no
\* override, returns the direct reference to the URL without error and
\* leaves directories, files and the count of HTTP GETs as they were.
C18_ExternalImage ==
    [][ (/\ arg'.fn = "render"
         /\ arg'.b.type = "image" /\ arg'.b.img = "external"
         /\ "Image" \notin arg'.ov)
            => /\ out'.text =
                    << "![", "image", "](", ExternalURL(arg'.b), ")" >>
               /\ ~out'.err /\ ~out'.panic
               /\ world' = world ]_vars

\* an external image was rendered on a file system that holds no directory
C18_Witness ==
    /\ out.fn = "render" /\ arg.b.img = "external" /\ arg.ov = {}
    /\ out.text = << "![", "image", "](", "http://ext/i1", ")" >>
    /\ world = NoWorld


\* C19: a todo block rendered by the default renderer is the prefix
\* "* [x] " when the block is checked, "* [ ] " when it is not, then the
\* block's text.
C19_TodoPrefix ==
    \A c \in Calls : \A i \in 1..Len(trace[c]) :
        LET r == trace[c][i]
            b == BlockById(c, r.id)
        IN  (r.type = "to_do" /\ "Todo" \notin opts[c].Overrides)
                => r.rend = << IF b.checked THEN "* [x] " ELSE "* [ ] " >>
                                \o RenderText(RichTextOf(b))


RECURSIVE SplitLines(_)
\* the lines of a text: what stands between its line breaks
SplitLines(txt) ==
    IF txt = << >> THEN << << >> >>
    ELSE IF Head(txt) = NL THEN << << >> >> \o SplitLines(Tail(txt))
    ELSE LET rest == SplitLines(Tail(txt))
         IN  << << Head(txt) >> \o rest[1] >> \o Tail(rest)

RECURSIVE JoinLines(_)
\* the lines put together again, a line break between two lines
JoinLines(ls) ==
    IF Len(ls) = 1 THEN ls[1]
    ELSE ls[1] \o << NL >> \o JoinLines(Tail(ls))

\* C20: AddPadding returns the text with every line of it (the first, and
\* each one after a line break) prefixed by 4 * depth spaces; at depth 0 the
\* text is returned as it is.
C20_Padding ==
    out # NoFunction =>
        LET ls == SplitLines(arg[1])
        IN  /\ out = JoinLines([ k \in 1..Len(ls) |->
                         Repeat(<< " " >>, 4 * arg[2]) \o ls[k] ])
            /\ arg[2] = 0 => out = arg[1]

\* a text of two lines was padded at depth 1
C20_Witness ==
    /\ arg = << << "a", NL, "a" >>, 1 >>
    /\ out = << " ", " ", " ", " ", "a", NL, " ", " ", " ", " ", "a" >>


\* C21: every sibling run, that of the page and that of each block whose
\* children are entered by recursion, starts with the empty tag: the first
\* block of every container is rendered after the tag "" and its separator
\* is the one of the pair ("", its type); the first bulleted child of a
\* bulleted item is preceded by a double line break.
C21_RunStartsEmpty ==
    \A c \in Calls : \A i \in 1..Len(trace[c]) :
        LET r == trace[c][i]
        IN  IndexInParent(c, r.id) = 0 =>
                /\ r.previous = ""
                /\ r.sep = AddSectionSeperation("", r.type)
                /\ r.type = "bulleted_list_item" => r.sep = << NL, NL >>


\* C22: a table block and a block of a variant the renderer does not know
\* contribute no byte to the output at any depth, depth 1 and deeper
\* included: no separator, no padding spaces, no text; and the traversal
\* goes on with the blocks after it.
C22_MarkerIsSilent ==
    \A c \in Calls : \A i \in 1..Len(trace[c]) :
        LET r == trace[c][i]
        IN  r.type \notin KnownTypes \/ r.type = "table"
                => r.sep \o r.out = << >>


\* the blocks of call c that were rendered and have children
RenderedParents(c) ==
    { trace[c][i].id : i \in { n \in 1..Len(trace[c]) :
                                  BlockById(c, trace[c][n].id).hasChildren } }

\* C24: Render asks for a page object for the root page id only, so a
\* page-by-id fetch that fails for a block below the root does not stop
\* that block's children from being rendered: when no children fetch
\* failed, the children of every rendered block are fetched and those the
\* options do not leave out are rendered.
C24_ChildrenOfBlocksRendered ==
    \A c \in Calls :
        (pc[c] = "done" /\ "children" \notin failed[c]
                        /\ "image" \notin failed[c]
                        /\ RootId \in DOMAIN tree[c]) =>
            \A id \in RenderedParents(c) :
                /\ id \in DOMAIN tree[c]
                /\ \A b \in Range(tree[c][id].results) :
                      ~IsSkippedBlock(b, opts[c])
                          => b.id \in Range(TraceIds(c))


\* C27: SaveNotionImageToFilesystem called with a URL that parses and whose
\* path splits on "/" into fewer than three parts (the path "/abc", the
\* empty path) returns the invalid-path error and the empty local path: it
\* does not fail by indexing past the end of the parts and makes no HTTP GET.
C27_ShortPathRejected ==
    (out.fn = "save" /\ arg.address.ok /\ Len(arg.address.resources) < 3)
        => /\ ~out.panic
           /\ out.err /\ out.path = ""
           /\ ~out.fetched


\* ------------------------------------------------------------- termination

\* The steps of one Render call.
Step(c) == Render(c) \/ FetchChildren(c) \/ RenderBlock(c)

\* A Render call runs on its goroutine without waiting for anything but the
\* fetches, and each fetch returns or fails: a call that can take a step
\* takes it.
SpecLive == Init /\ [][Next]_vars /\ \A c \in Calls : WF_vars(Step(c))

\* C23: whatever finite tree the content source delivers and however each
\* fetch ends, a Render call that was made returns, with the output or with
\* an error; no block is rendered twice.
C23_RenderReturns ==
    /\ [](\A c \in Calls : \A i, j \in 1..Len(trace[c]) :
             trace[c][i].id = trace[c][j].id => i = j)
    /\ \A c \in Calls : (pc[c] = "idle") ~> (pc[c] = "done")


\* a token can be resolved for the options: they hold one, or the
\* environment variable or the configuration file does
TokenResolvable(o, env, conf) ==
    \/ Len(o) > 0 /\ o[1].NotionToken # ""
    \/ resolveNotionToken(env, conf).err = NoError

\* C25: NewExporter called with options that hold no Renderer and the empty
\* Format, when a token can be resolved, returns no error and an exporter
\* with the default markdown renderer, the renderer it has when no options
\* are passed.
C25_EmptyFormatIsDefault ==
    (/\ out.fn = "NewExporter"
     /\ Len(arg.o) = 1
     /\ arg.o[1].Renderer = "nil" /\ arg.o[1].Format = ""
     /\ TokenResolvable(arg.o, arg.env, arg.conf))
        => /\ out.err = NoError
           /\ out.e.Renderer = "MDRenderer"
           /\ out.e.Renderer = NewRenderer(defaultFormat).r

\* C26: the access token never reaches standard output: after NewExporter
\* and after a run of the export command, whichever source holds the token
\* (the options, the environment variable NOTION_TOKEN, the configuration
\* file), standard output holds no token value.
C26_TokenNotPrinted ==
    \A i \in 1..Len(out.stdout) :
        out.stdout[i] \notin { "tok-opt", "tok-env", "tok-cfg" }

=============================================================================
